---- MODULE Spec2Model ----
(***************************************************************************)
(* Model of quantum.py: simulate_fsm_quantum, save_summary_hist and        *)
(* ensure_outdir, with the output directory, the pyplot figure registry    *)
(* and the circuit that simulate_fsm_quantum builds and runs.              *)
(*                                                                         *)
(* An invocation is a sequence of steps (pc), one per statement group of   *)
(* the source.  A step that calls into the operating system or a library   *)
(* (makedirs, circuit_drawer, savefig, backend.run, plot_histogram) either *)
(* completes or raises; an exception is never caught in quantum.py, so it  *)
(* ends the invocation where it is raised (pc = "done", outcome names it). *)
(***************************************************************************)
EXTENDS Integers, Sequences, FiniteSets, TLC

VARIABLES
    pc,         \* position of the running invocation, "idle" between calls
    sensors,    \* argument sensors: a function 0..n-1 -> value
    shots,      \* argument shots
    tag,        \* argument tag
    show,       \* argument show
    filename,   \* argument filename of save_summary_hist
    qc,         \* local qc: the circuit [nq, nc, ops]
    counts,     \* local counts: bitstring -> count
    circuit_path, \* local circuit_path
    hist_path,  \* local hist_path
    path,       \* local path of save_summary_hist
    fig_circ,   \* local fig_circ (figure number, 0 = unbound)
    fig_hist,   \* local fig_hist
    fig,        \* local fig of save_summary_hist
    dirExists,  \* the output directory exists on disk
    files,      \* the files in the output directory: name -> content kind
    openFigs,   \* pyplot's registry of open figures (figure numbers)
    outcome,    \* "none", "running", "returned" or the exception raised
    log,        \* history: the steps of this invocation that completed
    acquired,   \* history: the figures this invocation opened
    pre,        \* history: the disk when the invocation started
    calls       \* number of invocations started

vars == <<pc, sensors, shots, tag, show, filename, qc, counts, circuit_path,
          hist_path, path, fig_circ, fig_hist, fig, dirExists, files,
          openFigs, outcome, log, acquired, pre, calls>>

----------------------------------------------------------------------------
(* Bounds of the model *)

MaxShots == 3
MaxLen == 7
MaxCalls == 3

(* Program constants *)

NumSensors == 6
NumQubits == 9
NumClbits == 3
TargetQubit == 6

----------------------------------------------------------------------------
(* Inputs *)

LenOf(s) == Cardinality(DOMAIN s)

AllAbnormal == [i \in 0..(NumSensors - 1) |-> 0]
AllNormal == [i \in 0..(NumSensors - 1) |-> 1]

ValidSensors == [0..(NumSensors - 1) -> {0, 1}]

BadValues == {2, -1}

\* right length, one element outside (0, 1)
BadValueSensors ==
    {[s EXCEPT ![i] = v] : s \in {AllAbnormal, AllNormal},
                           i \in {0, NumSensors - 1}, v \in BadValues}

\* wrong length, binary elements
BadLengthSensors ==
    {[i \in 0..(n - 1) |-> b] : n \in (0..MaxLen) \ {NumSensors}, b \in {0, 1}}

InvalidSensors == BadValueSensors \cup BadLengthSensors

AllSensorInputs == ValidSensors \cup InvalidSensors

PartialAbnormal == [i \in 0..(NumSensors - 1) |-> IF i < 3 THEN 0 ELSE 1]
OneNormal == [i \in 0..(NumSensors - 1) |-> IF i = 5 THEN 1 ELSE 0]

\* the two cases of the script, a short vector and a non-binary reading
SensorCases ==
    {AllAbnormal, AllNormal,
     [i \in 0..(NumSensors - 2) |-> 0], [AllAbnormal EXCEPT ![0] = 2]}

Shots == 1..MaxShots
Tags == {"emergency", "normal"}
Filenames == {"summary_hist.png", "report.png"}

----------------------------------------------------------------------------
(* Validation (line 27) *)

\* faulty variant: only the length is checked
InvalidLengthOnly(s) == LenOf(s) # NumSensors

\* len(sensors) != 6 or any(v not in (0, 1) for v in sensors)
Invalid(s) == LenOf(s) # NumSensors \/ \E i \in DOMAIN s : s[i] \notin {0, 1}

----------------------------------------------------------------------------
(* The circuit (lines 33-45) *)

\* QuantumCircuit(9, 3)
QuantumCircuit(nq, nc) == [nq |-> nq, nc |-> nc, ops |-> <<>>]

AddOp(c, g) == [c EXCEPT !.ops = Append(@, g)]

XGate(q) == [op |-> "x", q |-> q, ctrl |-> {}, c |-> -1]
MCXGate(ctrl, q) == [op |-> "mcx", q |-> q, ctrl |-> ctrl, c |-> -1]
Measure(q, c) == [op |-> "measure", q |-> q, ctrl |-> {}, c |-> c]

\* faulty variant: the inversion is applied to every sensor line, whatever it reads
RECURSIVE InvertEvery(_, _, _)
InvertEvery(c, s, n) ==
    IF n = 0 THEN c ELSE AddOp(InvertEvery(c, s, n - 1), XGate(n - 1))

\* for i, val in enumerate(sensors): if val == 0: qc.x(i)    (first n sensors)
RECURSIVE InvertAbnormal(_, _, _)
InvertAbnormal(c, s, n) ==
    IF n = 0 THEN c
    ELSE LET d == InvertAbnormal(c, s, n - 1)
         IN  IF s[n - 1] = 0 THEN AddOp(d, XGate(n - 1)) ELSE d

\* faulty variant: the last sensor is left out of the controls
EmergencyGateFiveControls(c) == AddOp(c, MCXGate(0..4, TargetQubit))

\* qc.mcx([0, 1, 2, 3, 4, 5], 6)
EmergencyGate(c) == AddOp(c, MCXGate(0..5, TargetQubit))

\* faulty variant: qubit 6 is measured into classical bit 0 and qubit 8 into bit 2
MeasureStateSwapped(c) ==
    AddOp(AddOp(AddOp(c, Measure(6, 0)), Measure(7, 1)), Measure(8, 2))

\* qc.measure([6, 7, 8], [2, 1, 0])
MeasureState(c) ==
    AddOp(AddOp(AddOp(c, Measure(6, 2)), Measure(7, 1)), Measure(8, 0))

BuildCircuit(s) ==
    MeasureState(EmergencyGate(
        InvertAbnormal(QuantumCircuit(NumQubits, NumClbits), s, LenOf(s))))

----------------------------------------------------------------------------
(* Execution of a circuit on the simulator (lines 55-58).  Every gate of   *)
(* the circuit maps basis states to basis states, so one shot is the       *)
(* register [q, c] after the gates are applied in order from all zeros.    *)

Flip(b) == 1 - b

ApplyGate(st, g) ==
    CASE g.op = "x" -> [st EXCEPT !.q[g.q] = Flip(@)]
      [] g.op = "mcx" ->
            IF \A k \in g.ctrl : st.q[k] = 1
            THEN [st EXCEPT !.q[g.q] = Flip(@)]
            ELSE st
      [] g.op = "measure" -> [st EXCEPT !.c[g.c] = st.q[g.q]]

RECURSIVE ApplyOps(_, _, _)
ApplyOps(st, ops, n) ==
    IF n = 0 THEN st ELSE ApplyGate(ApplyOps(st, ops, n - 1), ops[n])

ZeroState(c) == [q |-> [i \in 0..(c.nq - 1) |-> 0],
                 c |-> [i \in 0..(c.nc - 1) |-> 0]]

\* the register after the first n operations of circuit c
StateAfter(c, n) == ApplyOps(ZeroState(c), c.ops, n)

FinalState(c) == StateAfter(c, Len(c.ops))

BitChar(b) == IF b = 1 THEN "1" ELSE "0"

\* get_counts keys: classical bit nc-1 is the leftmost character
RECURSIVE BitString(_, _)
BitString(cl, n) ==
    IF n = 0 THEN "" ELSE BitChar(cl[n - 1]) \o BitString(cl, n - 1)

RunShot(c) == BitString(FinalState(c).c, c.nc)

\* faulty variant: a repeated outcome is recorded once instead of counted
TallyOverwrite(cnt, k) == [j \in DOMAIN cnt \cup {k} |-> 1]

\* counts[k] += 1
Tally(cnt, k) ==
    [j \in DOMAIN cnt \cup {k} |->
        (IF j \in DOMAIN cnt THEN cnt[j] ELSE 0) + (IF j = k THEN 1 ELSE 0)]

\* backend.run(tqc, shots=shots).result().get_counts(tqc)
RECURSIVE RunCounts(_, _)
RunCounts(c, n) ==
    IF n = 0 THEN <<>> ELSE Tally(RunCounts(c, n - 1), RunShot(c))

----------------------------------------------------------------------------
(* Disk and figures *)

OutDir == "outputs"

\* os.path.join(outdir, name)
Join(d, name) == d \o "/" \o name

CircuitFile(t) == "circuit_" \o t \o ".png"
HistFile(t) == "hist_" \o t \o ".png"

NoFiles == [n \in {} |-> [kind |-> "", by |-> 0]]

\* a file somebody else put in the directory
UserFile == Join(OutDir, "notes.txt")
UserFiles == [n \in {UserFile} |-> [kind |-> "user", by |-> 0]]

\* faulty variant: the directory is made anew, without the files it held
ensure_outdir_fresh(d) == [exists |-> TRUE, files |-> NoFiles]

\* os.makedirs(outdir, exist_ok=True), when it does not raise; return outdir
ensure_outdir(d) == [d EXCEPT !.exists = TRUE]

\* faulty variant: the directory is emptied before the image is written
SaveFigAlone(fs, p, kind, by) == [n \in {p} |-> [kind |-> kind, by |-> by]]

\* fig.savefig(p): the file at p holds the image, the others are untouched
SaveFig(fs, p, kind, by) ==
    [n \in DOMAIN fs \cup {p} |->
        IF n = p THEN [kind |-> kind, by |-> by] ELSE fs[n]]

Max(S) == CHOOSE m \in S : \A k \in S : k <= m

\* pyplot numbers a new figure one above the highest open one
NewFig(open) == IF open = {} THEN 1 ELSE Max(open) + 1

\* plt.close(f)
CloseFig(open, f) == open \ {f}

NoCircuit == QuantumCircuit(0, 0)
NoCounts == [k \in {} |-> 0]
NoSensors == [i \in {} |-> 0]

----------------------------------------------------------------------------
(* State *)

args == <<sensors, shots, tag, show, filename>>
paths == <<circuit_path, hist_path, path>>
figs == <<fig_circ, fig_hist, fig>>
disk == <<dirExists, files>>

Disk == [exists |-> dirExists, files |-> files]

IdleLocals ==
    /\ sensors = NoSensors /\ shots = 0 /\ tag = "" /\ show = FALSE
    /\ filename = ""
    /\ qc = NoCircuit /\ counts = NoCounts
    /\ circuit_path = "" /\ hist_path = "" /\ path = ""
    /\ fig_circ = 0 /\ fig_hist = 0 /\ fig = 0
    /\ outcome = "none" /\ log = <<>> /\ acquired = {}

InitDisk ==
    \/ dirExists = FALSE /\ files = NoFiles
    \/ dirExists = TRUE /\ files \in {NoFiles, UserFiles}

Init ==
    /\ pc = "idle"
    /\ IdleLocals
    /\ InitDisk
    /\ openFigs = {}
    /\ pre = Disk
    /\ calls = 0

\* the step completed: go on to the next one
Step(this, next) ==
    /\ pc' = next
    /\ log' = Append(log, this)
    /\ outcome' = outcome

\* faulty variant: the exception is swallowed and the function goes on to return
RaiseSwallowed(exc) ==
    /\ pc' = "return"
    /\ log' = log
    /\ outcome' = exc

\* the step raised: nothing in quantum.py catches it
Raise(exc) ==
    /\ pc' = "done"
    /\ log' = log
    /\ outcome' = exc

----------------------------------------------------------------------------
(* simulate_fsm_quantum (lines 16-72) *)

\* a call, with its arguments
Call(s, n, t, sh) ==
    /\ pc = "idle"
    /\ calls < MaxCalls
    /\ pc' = "validate"
    /\ sensors' = s /\ shots' = n /\ tag' = t /\ show' = sh
    /\ outcome' = "running"
    /\ pre' = Disk
    /\ calls' = calls + 1
    /\ UNCHANGED <<filename, qc, counts, paths, figs, disk, openFigs, log,
                   acquired>>

\* lines 27-28
Validate ==
    /\ pc = "validate"
    /\ \/ Invalid(sensors) /\ Raise("ValueError")
       \/ ~Invalid(sensors) /\ Step("validate", "ensure_outdir")
    /\ UNCHANGED <<args, qc, counts, paths, figs, disk, openFigs, acquired,
                   pre, calls>>

\* line 30
EnsureOutdir ==
    /\ pc = "ensure_outdir"
    /\ \/ /\ dirExists' = ensure_outdir(Disk).exists
          /\ files' = ensure_outdir(Disk).files
          /\ Step("ensure_outdir", "build")
       \/ /\ ~dirExists
          /\ Raise("OSError")
          /\ UNCHANGED disk
    /\ UNCHANGED <<args, qc, counts, paths, figs, openFigs, acquired, pre,
                   calls>>

\* lines 33-45
Build ==
    /\ pc = "build"
    /\ qc' = BuildCircuit(sensors)
    /\ Step("build", "draw_circuit")
    /\ UNCHANGED <<args, counts, paths, figs, disk, openFigs, acquired, pre,
                   calls>>

\* lines 48-50
DrawCircuit ==
    /\ pc = "draw_circuit"
    /\ circuit_path' = Join(OutDir, CircuitFile(tag))
    /\ \/ /\ fig_circ' = NewFig(openFigs)
          /\ openFigs' = openFigs \cup {NewFig(openFigs)}
          /\ acquired' = acquired \cup {NewFig(openFigs)}
          /\ Step("draw_circuit", "save_circuit")
       \/ /\ Raise("DrawError")
          /\ UNCHANGED <<fig_circ, openFigs, acquired>>
    /\ UNCHANGED <<args, qc, counts, hist_path, path, fig_hist, fig, disk,
                   pre, calls>>

\* line 51
SaveCircuit ==
    /\ pc = "save_circuit"
    /\ \/ /\ files' = SaveFig(files, circuit_path, "circuit", calls)
          /\ Step("save_circuit", "close_circuit")
       \/ /\ Raise("OSError")
          /\ UNCHANGED files
    /\ UNCHANGED <<args, qc, counts, paths, figs, dirExists, openFigs,
                   acquired, pre, calls>>

\* line 52
CloseCircuit ==
    /\ pc = "close_circuit"
    /\ openFigs' = CloseFig(openFigs, fig_circ)
    /\ Step("close_circuit", "run")
    /\ UNCHANGED <<args, qc, counts, paths, figs, disk, acquired, pre, calls>>

\* lines 55-62
RunSimulation ==
    /\ pc = "run"
    /\ \/ /\ counts' = RunCounts(qc, shots)
          /\ Step("run", "plot_hist")
       \/ /\ Raise("SimulationError")
          /\ UNCHANGED counts
    /\ UNCHANGED <<args, qc, paths, figs, disk, openFigs, acquired, pre,
                   calls>>

\* lines 65-66
PlotHist ==
    /\ pc = "plot_hist"
    /\ hist_path' = Join(OutDir, HistFile(tag))
    /\ \/ /\ fig_hist' = NewFig(openFigs)
          /\ openFigs' = openFigs \cup {NewFig(openFigs)}
          /\ acquired' = acquired \cup {NewFig(openFigs)}
          /\ Step("plot_hist", "save_hist")
       \/ /\ Raise("PlotError")
          /\ UNCHANGED <<fig_hist, openFigs, acquired>>
    /\ UNCHANGED <<args, qc, counts, circuit_path, path, fig_circ, fig, disk,
                   pre, calls>>

\* line 67
SaveHist ==
    /\ pc = "save_hist"
    /\ \/ /\ files' = SaveFig(files, hist_path, "hist", calls)
          /\ Step("save_hist", "close_hist")
       \/ /\ Raise("OSError")
          /\ UNCHANGED files
    /\ UNCHANGED <<args, qc, counts, paths, figs, dirExists, openFigs,
                   acquired, pre, calls>>

\* lines 68-70: plt.show() when asked, then plt.close(fig_hist).  On a
\* backend without windows plt.show() does nothing; on one with windows it
\* returns when every window is closed, and a closed window's figure is gone.
CloseHist ==
    /\ pc = "close_hist"
    /\ openFigs' \in (IF show THEN {CloseFig(openFigs, fig_hist), {}}
                              ELSE {CloseFig(openFigs, fig_hist)})
    /\ Step("close_hist", "return")
    /\ UNCHANGED <<args, qc, counts, paths, figs, disk, acquired, pre, calls>>

\* line 72: return counts, circuit_path, hist_path
Return ==
    /\ pc = "return"
    /\ pc' = "done"
    /\ log' = Append(log, "return")
    /\ outcome' = "returned"
    /\ UNCHANGED <<args, qc, counts, paths, figs, disk, openFigs, acquired,
                   pre, calls>>

\* the value handed to the caller at pc = "done"
Returned == <<counts, circuit_path, hist_path>>

----------------------------------------------------------------------------
(* save_summary_hist (lines 75-90) *)

CallSummary(f) ==
    /\ pc = "idle"
    /\ calls < MaxCalls
    /\ pc' = "s_ensure_outdir"
    /\ filename' = f
    /\ outcome' = "running"
    /\ pre' = Disk
    /\ calls' = calls + 1
    /\ UNCHANGED <<sensors, shots, tag, show, qc, counts, paths, figs, disk,
                   openFigs, log, acquired>>

\* lines 80-81
SummaryEnsureOutdir ==
    /\ pc = "s_ensure_outdir"
    /\ \/ /\ dirExists' = ensure_outdir(Disk).exists
          /\ files' = ensure_outdir(Disk).files
          /\ path' = Join(OutDir, filename)
          /\ Step("s_ensure_outdir", "s_figure")
       \/ /\ ~dirExists
          /\ Raise("OSError")
          /\ UNCHANGED <<disk, path>>
    /\ UNCHANGED <<args, qc, counts, circuit_path, hist_path, figs, openFigs,
                   acquired, pre, calls>>

\* line 84: fig = plt.figure()
SummaryFigure ==
    /\ pc = "s_figure"
    /\ fig' = NewFig(openFigs)
    /\ openFigs' = openFigs \cup {NewFig(openFigs)}
    /\ acquired' = acquired \cup {NewFig(openFigs)}
    /\ Step("s_figure", "s_plot")
    /\ UNCHANGED <<args, qc, counts, paths, fig_circ, fig_hist, disk, pre,
                   calls>>

\* line 86: fig = plot_histogram(counts_dict), a figure of its own
SummaryPlot ==
    /\ pc = "s_plot"
    /\ \/ /\ fig' = NewFig(openFigs)
          /\ openFigs' = openFigs \cup {NewFig(openFigs)}
          /\ acquired' = acquired \cup {NewFig(openFigs)}
          /\ Step("s_plot", "s_save")
       \/ /\ Raise("PlotError")
          /\ UNCHANGED <<fig, openFigs, acquired>>
    /\ UNCHANGED <<args, qc, counts, paths, fig_circ, fig_hist, disk, pre,
                   calls>>

\* line 87
SummarySave ==
    /\ pc = "s_save"
    /\ \/ /\ files' = SaveFig(files, path, "summary", calls)
          /\ Step("s_save", "s_close")
       \/ /\ Raise("OSError")
          /\ UNCHANGED files
    /\ UNCHANGED <<args, qc, counts, paths, figs, dirExists, openFigs,
                   acquired, pre, calls>>

\* line 88
SummaryClose ==
    /\ pc = "s_close"
    /\ openFigs' = CloseFig(openFigs, fig)
    /\ Step("s_close", "s_return")
    /\ UNCHANGED <<args, qc, counts, paths, figs, disk, acquired, pre, calls>>

\* line 90: return path
SummaryReturn ==
    /\ pc = "s_return"
    /\ pc' = "done"
    /\ log' = Append(log, "s_return")
    /\ outcome' = "returned"
    /\ UNCHANGED <<args, qc, counts, paths, figs, disk, openFigs, acquired,
                   pre, calls>>

----------------------------------------------------------------------------
(* The invocation is over: its arguments and locals are gone, the disk and *)
(* the open figures stay.                                                  *)

Exit ==
    /\ pc = "done"
    /\ pc' = "idle"
    /\ sensors' = NoSensors /\ shots' = 0 /\ tag' = "" /\ show' = FALSE
    /\ filename' = ""
    /\ qc' = NoCircuit /\ counts' = NoCounts
    /\ circuit_path' = "" /\ hist_path' = "" /\ path' = ""
    /\ fig_circ' = 0 /\ fig_hist' = 0 /\ fig' = 0
    /\ outcome' = "none" /\ log' = <<>> /\ acquired' = {}
    /\ pre' = Disk
    /\ UNCHANGED <<disk, openFigs, calls>>

SimulateSteps ==
    \/ Validate \/ EnsureOutdir \/ Build \/ DrawCircuit \/ SaveCircuit
    \/ CloseCircuit \/ RunSimulation \/ PlotHist \/ SaveHist \/ CloseHist
    \/ Return

SummarySteps ==
    \/ SummaryEnsureOutdir \/ SummaryFigure \/ SummaryPlot \/ SummarySave
    \/ SummaryClose \/ SummaryReturn

Next ==
    \/ \E s \in SensorCases, n \in {1, MaxShots}, t \in Tags, sh \in BOOLEAN :
          Call(s, n, t, sh)
    \/ \E f \in Filenames : CallSummary(f)
    \/ SimulateSteps
    \/ SummarySteps
    \/ Exit

Spec == Init /\ [][Next]_vars

(* One invocation of simulate_fsm_quantum on every input. *)

InitCircuit ==
    /\ pc = "validate"
    /\ sensors \in AllSensorInputs /\ shots \in Shots /\ tag \in Tags
    /\ show \in BOOLEAN
    /\ filename = ""
    /\ qc = NoCircuit /\ counts = NoCounts
    /\ circuit_path = "" /\ hist_path = "" /\ path = ""
    /\ fig_circ = 0 /\ fig_hist = 0 /\ fig = 0
    /\ outcome = "running" /\ log = <<>> /\ acquired = {}
    /\ InitDisk
    /\ openFigs = {}
    /\ pre = Disk
    /\ calls = 1

NextCircuit == SimulateSteps \/ Exit

SpecCircuit == InitCircuit /\ [][NextCircuit]_vars

----------------------------------------------------------------------------
(* Vocabulary of the properties *)

InSimulate == pc # "idle" /\ filename = ""
InSummary == pc # "idle" /\ filename # ""

Done == pc = "done"
SimulateReturned == Done /\ InSimulate /\ outcome = "returned"
SimulateFailed == Done /\ InSimulate /\ outcome # "returned"
SummaryReturned == Done /\ InSummary /\ outcome = "returned"

Completed(step) == \E k \in 1..Len(log) : log[k] = step

\* the files this invocation wrote
WrittenNow == {n \in DOMAIN files : files[n].by = calls}

\* the position of the multi-controlled operation in the circuit
MCXAt(c) == {k \in 1..Len(c.ops) : c.ops[k].op = "mcx"}
XOn(c, i) == {k \in 1..Len(c.ops) : c.ops[k].op = "x" /\ c.ops[k].q = i}

RECURSIVE SumOver(_, _)
SumOver(cnt, keys) ==
    IF keys = {} THEN 0
    ELSE LET k == CHOOSE k \in keys : TRUE
         IN  cnt[k] + SumOver(cnt, keys \ {k})

Total(cnt) == SumOver(cnt, DOMAIN cnt)

\* the keys with the highest count
Dominant(cnt) == {k \in DOMAIN cnt : \A j \in DOMAIN cnt : cnt[j] <= cnt[k]}

IsPrefix(a, b) == Len(a) <= Len(b) /\ \A k \in 1..Len(a) : a[k] = b[k]

----------------------------------------------------------------------------
(* Properties of the circuit and of the counts *)

\* C1: for sensors [0,0,0,0,0,0], after the inversions all six sensor lines
\* are 1, the multi-controlled operation flips qubit 6, only output bit 2 is
\* set, and the counts that simulate_fsm_quantum returns have '100' (c2c1c0)
\* as their one highest-count bitstring.
C1_AllAbnormalGives100 ==
    (SimulateReturned /\ sensors = AllAbnormal) =>
        /\ Dominant(counts) = {"100"}
        /\ \A k \in MCXAt(qc) :
              /\ \A i \in 0..5 : StateAfter(qc, k - 1).q[i] = 1
              /\ StateAfter(qc, k - 1).q[TargetQubit] = 0
              /\ StateAfter(qc, k).q[TargetQubit] = 1
        /\ FinalState(qc).c = [i \in 0..2 |-> IF i = 2 THEN 1 ELSE 0]

C1_Witness ==
    /\ SimulateReturned /\ sensors = AllAbnormal
    /\ MCXAt(qc) # {}
    /\ Returned[1] = [k \in {"100"} |-> shots]
    /\ shots = MaxShots

\* C2: for every valid sensor vector with at least one sensor at 1 the
\* multi-controlled operation leaves qubit 6 alone and the highest-count
\* bitstring is '000'; over all valid vectors the result is '100' exactly
\* when all six sensors are 0.
C2_OtherwiseGives000 ==
    SimulateReturned =>
        /\ (\E i \in 0..5 : sensors[i] = 1) =>
              /\ Dominant(counts) = {"000"}
              /\ \A k \in MCXAt(qc) :
                    StateAfter(qc, k) = StateAfter(qc, k - 1)
        /\ ("100" \in Dominant(counts)) <=> (\A i \in 0..5 : sensors[i] = 0)

C2_Witness ==
    /\ SimulateReturned /\ sensors = OneNormal
    /\ MCXAt(qc) # {}
    /\ Returned[1] = [k \in {"000"} |-> shots]

\* C6: for a valid sensor vector and a positive shot count the returned
\* counts sum to the shot count and every key is a bitstring of length 3.
C6_CountsSumToShots ==
    (SimulateReturned /\ shots > 0) =>
        /\ Total(Returned[1]) = shots
        /\ \A k \in DOMAIN Returned[1] : Len(k) = 3

C6_Witness ==
    /\ SimulateReturned /\ shots = MaxShots /\ shots > 1
    /\ sensors = PartialAbnormal
    /\ DOMAIN counts # {}

\* C10: in the circuit built for a valid sensor vector, X is applied (once)
\* to sensor line i exactly when sensors[i] = 0 and to no other line, there
\* is one multi-controlled operation, before it control line i is 1 exactly
\* when sensor i reads 0, it changes no qubit but qubit 6, and the measured
\* bits c1 and c0 are 0.
C10_CircuitShape ==
    (InSimulate /\ Completed("build")) =>
        /\ \A i \in 0..5 :
              Cardinality(XOn(qc, i)) = (IF sensors[i] = 0 THEN 1 ELSE 0)
        /\ \A i \in 6..8 : XOn(qc, i) = {}
        /\ Cardinality(MCXAt(qc)) = 1
        /\ \A k \in MCXAt(qc) :
              /\ \A i \in 0..5 :
                    (StateAfter(qc, k - 1).q[i] = 1) <=> (sensors[i] = 0)
              /\ \A i \in (0..8) \ {TargetQubit} :
                    StateAfter(qc, k).q[i] = StateAfter(qc, k - 1).q[i]
        /\ FinalState(qc).c[1] = 0 /\ FinalState(qc).c[0] = 0
        /\ FinalState(qc).q[7] = 0 /\ FinalState(qc).q[8] = 0
        /\ Completed("run") => DOMAIN counts \subseteq {"000", "100"}

C10_Witness ==
    /\ SimulateReturned /\ sensors = PartialAbnormal
    /\ Cardinality(MCXAt(qc)) = 1
    /\ \A i \in 0..2 : XOn(qc, i) # {}
    /\ DOMAIN counts = {"000"}

----------------------------------------------------------------------------
(* Properties of an invocation: validation, figures, files, order *)

\* C3: for a sensor vector whose length is not 6 or that holds a value
\* outside {0,1}, simulate_fsm_quantum raises ValueError at once: no step
\* completes, the directory is not created, no file is written, no circuit
\* is built, no figure is opened, nothing is run and no counts exist.
C3_InvalidInputRejected ==
    (InSimulate /\ pc # "validate" /\ sensors \notin ValidSensors) =>
        /\ Done /\ outcome = "ValueError"
        /\ log = <<>>
        /\ Disk = pre
        /\ qc = NoCircuit /\ counts = NoCounts
        /\ acquired = {}
        /\ circuit_path = "" /\ hist_path = ""

C3_Witness ==
    /\ Done /\ InSimulate /\ outcome = "ValueError"
    /\ LenOf(sensors) = NumSensors /\ sensors \notin ValidSensors
    /\ ~pre.exists /\ ~dirExists /\ files = NoFiles

\* C4: when simulate_fsm_quantum or save_summary_hist is over, by return or
\* by exception, none of the figures it opened is still open.
C4_FiguresReleased == Done => acquired \cap openFigs = {}

\* C5: an invocation of simulate_fsm_quantum either completes (both image
\* files written, counts returned) or leaves none of its outputs: after a
\* failure no file written by the invocation is on disk.
C5_NoPartialResults ==
    (Done /\ InSimulate) =>
        \/ /\ outcome = "returned"
           /\ WrittenNow = {circuit_path, hist_path}
           /\ Completed("run")
        \/ /\ outcome # "returned"
           /\ WrittenNow = {}

\* C7: a successful simulate_fsm_quantum with tag t writes exactly
\* outputs/circuit_<t>.png and outputs/hist_<t>.png and returns the counts
\* and these two paths; a successful save_summary_hist writes exactly
\* outputs/<filename> and returns that path; every other file of the
\* directory is as it was and none is removed.
C7_ExactlyTheOutputFiles ==
    /\ SimulateReturned =>
          LET cp == "outputs/circuit_" \o tag \o ".png"
              hp == "outputs/hist_" \o tag \o ".png"
          IN  /\ WrittenNow = {cp, hp}
              /\ files[cp].kind = "circuit" /\ files[hp].kind = "hist"
              /\ DOMAIN files = DOMAIN pre.files \cup {cp, hp}
              /\ \A n \in DOMAIN pre.files \ {cp, hp} : files[n] = pre.files[n]
              /\ Returned = <<counts, cp, hp>>
              /\ Completed("run") /\ counts # NoCounts
    /\ SummaryReturned =>
          LET sp == "outputs/" \o filename
          IN  /\ WrittenNow = {sp}
              /\ files[sp].kind = "summary"
              /\ DOMAIN files = DOMAIN pre.files \cup {sp}
              /\ \A n \in DOMAIN pre.files \ {sp} : files[n] = pre.files[n]
              /\ path = sp

\* a second call under one tag, into a directory that holds a user's file
C7_Witness ==
    /\ SimulateReturned
    /\ UserFile \in DOMAIN pre.files
    /\ circuit_path \in DOMAIN pre.files
    /\ Cardinality(DOMAIN files) >= 4

SimulatePipeline ==
    <<"validate", "ensure_outdir", "build", "draw_circuit", "save_circuit",
      "close_circuit", "run", "plot_hist", "save_hist", "close_hist",
      "return">>

NoStepTwice == \A j, k \in 1..Len(log) : log[j] = log[k] => j = k

FailureEndsInvocation ==
    /\ outcome \notin {"none", "running"} => Done
    /\ (Done /\ ~Completed("build")) => qc = NoCircuit
    /\ (Done /\ ~Completed("save_circuit")) => WrittenNow = {}
    /\ (Done /\ ~Completed("run")) => counts = NoCounts
    /\ (Done /\ ~Completed("save_hist")) => hist_path \notin WrittenNow

Before(a, b) ==
    \A k \in 1..Len(log) : log[k] = b => \E j \in 1..(k - 1) : log[j] = a

\* C9, as claimed: validate, build, run, export in this order, both image
\* files written only after the simulation run has completed, no step
\* retried, and a failure ends the invocation.
C9_ExportsAfterRun ==
    InSimulate =>
        /\ Before("validate", "build") /\ Before("build", "run")
        /\ Before("run", "save_circuit") /\ Before("run", "save_hist")
        /\ NoStepTwice
        /\ FailureEndsInvocation

\* C9, amended: the steps complete in the order validate, ensure_outdir,
\* build, draw and save the circuit image, run, plot and save the
\* histogram image, return: the circuit image is written before the
\* simulation run, the histogram image after it; no step is retried, and a
\* failure ends the invocation with no later step executed.
C9_LinearPipeline ==
    InSimulate =>
        /\ IsPrefix(log, SimulatePipeline)
        /\ Before("validate", "build") /\ Before("build", "run")
        /\ Before("build", "save_circuit") /\ Before("save_circuit", "run")
        /\ Before("run", "save_hist")
        /\ NoStepTwice
        /\ FailureEndsInvocation

\* the run failed after the circuit image was written
C9_Witness ==
    /\ SimulateFailed /\ outcome = "SimulationError"
    /\ Completed("save_circuit") /\ ~Completed("run")
    /\ circuit_path \in WrittenNow
    /\ counts = NoCounts

====
